---- MODULE Spec2Model ----
(***************************************************************************)
(* Model of geotrans: geometric transformations between the OSS frame and  *)
(* the segment frames of the GMT mirrors M1 and M2.                        *)
(*                                                                         *)
(* Two revisions of the Segment/Transform code live in the repository:     *)
(*   "lib" : src/lib.rs, whose transforms take Result<Segment<M>, Error>;  *)
(*   "v2"  : src/segment.rs + src/transform.rs, whose transforms take a    *)
(*           Segment<M>.                                                   *)
(* Both share src/vector.rs and src/quaternion.rs.                         *)
(*                                                                         *)
(* Arithmetic.  An f64 is modelled by an exact number of the field Q(√3):  *)
(* the triple <<a, b, d>> stands for (a + b·√3)/d, d > 0, in lowest terms. *)
(* The sines and cosines of all multiples of 30 degrees are exact in this  *)
(* field, which covers every clocking angle.  The half-angles of the two   *)
(* beta constants have no closed form; their cosine/sine are represented   *)
(* by rational points of the unit circle (so that unit() yields a unit     *)
(* quaternion, as in exact arithmetic).  Conic::height is evaluated in     *)
(* decimal fixed point, every product, quotient and root being truncated,  *)
(* which stands for the rounding of the f64 evaluation.                    *)
(***************************************************************************)
EXTENDS Integers, Sequences, FiniteSets, TLC

\* ------------------------------------------------------------------ bounds
\* Segment ids requested from Segment::new range over (1-IdSlack)..(7+IdSlack)
IdSlack == 1
\* Input triples (x, y, z) are the integer points with |x|+|y|+|z| <= MaxNorm1
MaxNorm1 == 1
\* Slices passed to Vector::from have 0..MaxSliceLen elements
MaxSliceLen == 4

\* ------------------------------------------------------- exact numbers (f64)
Abs(n) == IF n < 0 THEN 0 - n ELSE n
Sgn(n) == IF n < 0 THEN 0 - 1 ELSE 1

GCD[m \in Nat, n \in Nat] == IF n = 0 THEN m ELSE GCD[n, m % n]
GCD3(a, b, d) == GCD[GCD[Abs(a), Abs(b)], Abs(d)]
LCM(m, n) == (m \div GCD[m, n]) * n

\* (a + b√3)/d, d > 0, in lowest terms
Reduce(a, b, d, g) == <<a \div g, b \div g, d \div g>>
Norm(a, b, d) == Reduce(a, b, d, GCD3(a, b, d))

Int2F(n) == <<n, 0, 1>>
Rat(n, d) == Norm(n, 0, d)
Zero == <<0, 0, 1>>
One == <<1, 0, 1>>
Half == <<1, 0, 2>>

\* f64 + f64
AddOver(x, y, l) ==
    Norm(x[1] * (l \div x[3]) + y[1] * (l \div y[3]),
         x[2] * (l \div x[3]) + y[2] * (l \div y[3]), l)
FAdd(x, y) == AddOver(x, y, LCM(x[3], y[3]))
\* -f64
FNeg(x) == <<0 - x[1], 0 - x[2], x[3]>>
\* f64 - f64
FSub(x, y) == FAdd(x, FNeg(y))
\* f64 * f64; g1, g2 cancel common factors across the two fractions first
MulReduced(x, y, g1, g2) ==
    Norm((x[1] \div g1) * (y[1] \div g2) + 3 * (x[2] \div g1) * (y[2] \div g2),
         (x[1] \div g1) * (y[2] \div g2) + (x[2] \div g1) * (y[1] \div g2),
         (x[3] \div g2) * (y[3] \div g1))
FMul(x, y) == MulReduced(x, y, GCD3(x[1], x[2], y[3]), GCD3(y[1], y[2], x[3]))
\* 1 / f64 (not zero): conj(y) / N(y), n = y[1]^2 - 3 y[2]^2
InvOver(y, n) == Norm(Sgn(n) * y[3] * y[1], 0 - Sgn(n) * y[3] * y[2], Abs(n))
FInv(y) == InvOver(y, y[1] * y[1] - 3 * y[2] * y[2])
\* f64 / f64
FDiv(x, y) == FMul(x, FInv(y))

\* f64::sqrt on the perfect squares (the only arguments the axes i, j, k give)
IsqrtIter[x \in Nat, r \in Nat] ==
    IF (r + x \div r) \div 2 >= r THEN r ELSE IsqrtIter[x, (r + x \div r) \div 2]
\* largest r with r*r <= x
Isqrt(x) == IF x = 0 THEN 0 ELSE IsqrtIter[x, 46340]
FSqrt(x) == <<Isqrt(x[1]), 0, Isqrt(x[3])>>

\* --------------------------------------------------------------- angles
\* An angle in degrees is an f64 as above.  An angle in radians is carried as
\* its exact multiple of pi: the value r stands for r·pi radians.
PI == One
\* f64::to_radians: degrees * pi / 180
to_radians(deg) == FMul(deg, <<1, 0, 180>>)

\* cos(k·30°), k in 0..11
Cos30(k) ==
    CASE k = 0 -> <<1, 0, 1>>
      [] k = 1 -> <<0, 1, 2>>
      [] k = 2 -> <<1, 0, 2>>
      [] k = 3 -> <<0, 0, 1>>
      [] k = 4 -> <<0 - 1, 0, 2>>
      [] k = 5 -> <<0, 0 - 1, 2>>
      [] k = 6 -> <<0 - 1, 0, 1>>
      [] k = 7 -> <<0, 0 - 1, 2>>
      [] k = 8 -> <<0 - 1, 0, 2>>
      [] k = 9 -> <<0, 0, 1>>
      [] k = 10 -> <<1, 0, 2>>
      [] k = 11 -> <<0, 1, 2>>

\* The beta constants of the two mirrors, in degrees
BETA_M1 == Rat(13601685, 1000000)
BETA_M2 == Rat(14777498, 1000000)
\* half of beta, in radians
HalfBeta(beta) == FMul(Half, to_radians(beta))

\* f64::cos, f64::sin of an angle x in radians; x6 = 6x is whole exactly when
\* x is a multiple of 30 degrees.  cos, sin of the two half-betas are the
\* rational unit-circle points (4/5, 3/5) and (12/13, 5/13).
CosOf(x, x6, hb1) ==
    IF x6[2] = 0 /\ x6[3] = 1 THEN Cos30(x6[1] % 12)
    ELSE IF x = hb1 THEN <<4, 0, 5>> ELSE <<12, 0, 13>>
SinOf(x, x6, hb1) ==
    IF x6[2] = 0 /\ x6[3] = 1 THEN Cos30((x6[1] + 9) % 12)
    ELSE IF x = hb1 THEN <<3, 0, 5>> ELSE <<5, 0, 13>>
Cos(x) == CosOf(x, FMul(x, <<6, 0, 1>>), HalfBeta(BETA_M1))
Sin(x) == SinOf(x, FMul(x, <<6, 0, 1>>), HalfBeta(BETA_M1))

\* -------------------------------------------------------------- vector.rs
\* The outcome of an operation that panics
Panic == <<"panic", "panic">>

\* struct Vector([f64; 3]): the three components, each computed once
Array3(f) == <<f[1], f[2], f[3]>>

\* impl From<[f64; 3]> for Vector
Vector_from_array(v) == <<v[1], v[2], v[3]>>
\* impl From<[i32; 3]> for Vector
Vector_from_i32(v) == <<Int2F(v[1]), Int2F(v[2]), Int2F(v[3])>>
\* impl From<f64> for Vector
Vector_from_f64(v) == <<v, v, v>>
\* Vector_from_slice padding every short slice with zeros
Vector_from_slice_pad(v) ==
    <<IF Len(v) >= 1 THEN v[1] ELSE Zero, IF Len(v) >= 2 THEN v[2] ELSE Zero,
      IF Len(v) >= 3 THEN v[3] ELSE Zero>>
\* impl From<&[f64]> for Vector
Vector_from_slice(v) ==
    IF Len(v) = 2 THEN <<v[1], v[2], Zero>>
    ELSE IF Len(v) < 3 THEN Panic
    ELSE <<v[1], v[2], v[3]>>

\* fold(0., |acc, (x, y)| acc + x * y) over the three components
Vector_dot(a, b) ==
    LET fold[i \in 0..3] ==
            IF i = 0 THEN Zero ELSE FAdd(fold[i - 1], FMul(a[i], b[i]))
    IN  fold[3]
\* Vector_cross with the second component written a1 * b3 - a3 * b1
Vector_cross_sign(a, b) ==
    <<FSub(FMul(a[2], b[3]), FMul(a[3], b[2])),
      FSub(FMul(a[1], b[3]), FMul(a[3], b[1])),
      FSub(FMul(a[1], b[2]), FMul(a[2], b[1]))>>
\* component i of Vector::cross: a[i+1]*b[i+2] - a[i+2]*b[i+1], indices cyclic
Vector_cross(a, b) ==
    Array3([i \in 1..3 |-> FSub(FMul(a[(i % 3) + 1], b[((i + 1) % 3) + 1]),
                                FMul(a[((i + 1) % 3) + 1], b[(i % 3) + 1]))])
Vector_norm_squared(a) == Vector_dot(a, a)
Vector_norm(a) == FSqrt(Vector_norm_squared(a))
Vector_null == Vector_from_f64(Zero)
Vector_i == Vector_from_i32(<<1, 0, 0>>)
Vector_j == Vector_from_i32(<<0, 1, 0>>)
Vector_k == Vector_from_i32(<<0, 0, 1>>)
Vector_add(a, b) == Array3([i \in 1..3 |-> FAdd(a[i], b[i])])
Vector_sub(a, b) == Array3([i \in 1..3 |-> FSub(a[i], b[i])])
Vector_neg(a) == Array3([i \in 1..3 |-> FNeg(a[i])])
\* f64 * &Vector
Vector_scale(s, a) == Array3([i \in 1..3 |-> FMul(a[i], s)])
\* f64 * Vector
Vector_scale_own(s, a) == Array3([i \in 1..3 |-> FMul(a[i], s)])
\* &Vector * f64
Vector_mul_f64(a, s) == Array3([i \in 1..3 |-> FMul(s, a[i])])
\* Vector / f64
Vector_div(a, s) == Array3([i \in 1..3 |-> FDiv(a[i], s)])

\* ---------------------------------------------------------- quaternion.rs
Quaternion_new(scalar, vector) ==
    [scalar |-> scalar, vector |-> Vector_from_slice(vector)]
Quaternion_pure(u) == Quaternion_new(Zero, u)
Quaternion_unit(theta, u) ==
    [scalar |-> Cos(FMul(Half, theta)),
     vector |-> Vector_div(Vector_scale(Sin(FMul(Half, theta)), Vector_from_slice(u)),
                           Vector_norm(Vector_from_slice(u)))]
Quaternion_complex_conjugate(q) ==
    [scalar |-> q.scalar, vector |-> Vector_neg(q.vector)]
Quaternion_vector_as_slice(q) == q.vector
\* impl From<Vector> for Quaternion
Quaternion_from_vector(v) == Quaternion_pure(v)
Quaternion_add(p, q) ==
    [scalar |-> FAdd(p.scalar, q.scalar), vector |-> Vector_add(p.vector, q.vector)]
Quaternion_sub(p, q) ==
    [scalar |-> FSub(p.scalar, q.scalar), vector |-> Vector_sub(p.vector, q.vector)]
\* Quaternion_mul with the cross product taken as rhs x self
Quaternion_mul_swapped(p, q) ==
    [scalar |-> FSub(FMul(p.scalar, q.scalar), Vector_dot(p.vector, q.vector)),
     vector |-> Vector_add(Vector_add(Vector_scale(p.scalar, q.vector),
                                      Vector_scale(q.scalar, p.vector)),
                           Vector_cross(q.vector, p.vector))]
\* impl Mul<T> for Quaternion, with rhs.into() already a Quaternion
Quaternion_mul(p, q) ==
    [scalar |-> FSub(FMul(p.scalar, q.scalar), Vector_dot(p.vector, q.vector)),
     vector |-> Vector_add(Vector_add(Vector_scale(p.scalar, q.vector),
                                      Vector_scale(q.scalar, p.vector)),
                           Vector_cross(p.vector, q.vector))]

\* impl Mul<T> for &Quaternion, with rhs.into() already a Quaternion
Quaternion_mul_ref_into(p, q) ==
    [scalar |-> FSub(FMul(p.scalar, q.scalar), Vector_dot(p.vector, q.vector)),
     vector |-> Vector_add(Vector_add(Vector_scale(p.scalar, q.vector),
                                      Vector_scale(q.scalar, p.vector)),
                           Vector_cross(p.vector, q.vector))]
\* impl Mul for &Quaternion (rhs: &Quaternion)
Quaternion_mul_ref_ref(p, q) ==
    [scalar |-> FSub(FMul(p.scalar, q.scalar), Vector_dot(p.vector, q.vector)),
     vector |-> Vector_add(Vector_add(Vector_scale(p.scalar, q.vector),
                                      Vector_scale(q.scalar, p.vector)),
                           Vector_cross(p.vector, q.vector))]
\* impl Mul<&Quaternion> for Quaternion
Quaternion_mul_own_ref(p, q) ==
    [scalar |-> FSub(FMul(p.scalar, q.scalar), Vector_dot(p.vector, q.vector)),
     vector |-> Vector_add(Vector_add(Vector_scale(p.scalar, q.vector),
                                      Vector_scale(q.scalar, p.vector)),
                           Vector_cross(p.vector, q.vector))]

\* ------------------------------------------- sqrt and atan2 (euler_angles)
\* sign of the exact number (a + b√3)/d
SgnOf(a, b) ==
    IF a = 0 /\ b = 0 THEN 0
    ELSE IF a >= 0 /\ b >= 0 THEN 1
    ELSE IF a <= 0 /\ b <= 0 THEN 0 - 1
    ELSE IF a > 0 THEN (IF a * a > 3 * b * b THEN 1 ELSE 0 - 1)
    ELSE (IF 3 * b * b > a * a THEN 1 ELSE 0 - 1)
FSgn(x) == SgnOf(x[1], x[2])

\* The roots (p + q√3)/d of (A + B√3)/d^2 with |p| = P: 2pq = B gives q
\* (q = sqrt(A/3) when P = 0), for either sign of p
RootsWith(A, B, d, P) ==
    IF P = 0 THEN {Norm(0, Isqrt(A \div 3), d)}
    ELSE {Norm(P, Sgn(B) * (Abs(B) \div (2 * P)), d),
          Norm(0 - P, 0 - Sgn(B) * (Abs(B) \div (2 * P)), d)}
\* p*p is (A + s)/2 or (A - s)/2, where s = sqrt(A*A - 3*B*B), which is d
\* times the root of the same expression in the numerators of x
RootsOf(A, B, d, s) ==
    RootsWith(A, B, d, Isqrt((A + s) \div 2))
        \cup RootsWith(A, B, d, Isqrt((A - s) \div 2))
\* the candidates that are the non-negative root of x
RootsChecked(x, cands) == {r \in cands : FSgn(r) >= 0 /\ FMul(r, r) = x}
\* f64::sqrt of x: the exact root when x is a square of the field, otherwise
\* (also for x < 0, where f64 gives NaN) the unevaluated root <<x>>
SqrtPick(x, roots) == IF roots = {} THEN <<x>> ELSE CHOOSE r \in roots : TRUE
SqrtExact(x, A, B) ==
    IF FSgn(x) < 0 THEN <<x>>
    ELSE IF B = 0 THEN SqrtPick(x, RootsChecked(x, RootsOf(A, B, x[3], A)))
    ELSE IF x[1] * x[1] < 3 * x[2] * x[2] THEN <<x>>
    ELSE SqrtPick(x, RootsChecked(x, RootsOf(A, B, x[3],
                     x[3] * Isqrt(x[1] * x[1] - 3 * x[2] * x[2]))))
Sqrt(x) == SqrtExact(x, x[1] * x[3], x[2] * x[3])

\* Directions (x, y) of the angles whose tangent is exact: the multiples of 15
\* degrees, the two betas (twice the half-betas of Cos, Sin) and 45 degrees
\* plus or minus the half-betas.  Entry: <<angle in radians, x, y>>.
Dir15(k, m) ==
    IF k % 2 = 0
    THEN <<Rat(k - 12, 12), Cos30(((k \div 2) + 6) % 12), Cos30(((k \div 2) + 3) % 12)>>
    ELSE <<Rat(k - 12, 12), FSub(Cos30(m % 12), Cos30((m + 9) % 12)),
           FAdd(Cos30((m + 9) % 12), Cos30(m % 12))>>
DirBeta(hb, c, s) ==
    <<  <<FMul(Int2F(2), hb), FSub(FMul(c, c), FMul(s, s)), FMul(Int2F(2), FMul(c, s))>>,
        <<FNeg(FMul(Int2F(2), hb)), FSub(FMul(c, c), FMul(s, s)),
          FNeg(FMul(Int2F(2), FMul(c, s)))>>,
        <<FAdd(Rat(1, 4), hb), FSub(c, s), FAdd(c, s)>>,
        <<FSub(Rat(1, 4), hb), FAdd(c, s), FSub(c, s)>>  >>
AngleTable ==
    [k \in 1..24 |-> Dir15(k, ((k - 3) \div 2) + 18)]
        \o DirBeta(HalfBeta(BETA_M1), <<4, 0, 5>>, <<3, 0, 5>>)
        \o DirBeta(HalfBeta(BETA_M2), <<12, 0, 13>>, <<5, 0, 13>>)
\* the table entry e points along (x, y)
Along(e, y, x) ==
    /\ FMul(y, e[2]) = FMul(x, e[3])
    /\ FSgn(FAdd(FMul(x, e[2]), FMul(y, e[3]))) > 0
\* f64::atan2: y.atan2(x) in radians; atan2(0, 0) = 0; off the table (or on
\* an unevaluated argument) the unevaluated angle <<1, y, x, 0>>, where
\* <<k, y, x, c>> stands for k * atan2(y, x) + c
Atan2In(tab, y, x) ==
    IF Len(y) # 3 \/ Len(x) # 3 THEN <<1, y, x, Zero>>
    ELSE IF y = Zero /\ x = Zero THEN Zero
    ELSE IF \E k \in DOMAIN tab : Along(tab[k], y, x)
         THEN tab[CHOOSE k \in DOMAIN tab : Along(tab[k], y, x)][1]
         ELSE <<1, y, x, Zero>>
Atan2(y, x) == Atan2In(AngleTable, y, x)
\* k * a - c for an angle a
AngleTimesMinus(a, k, c) ==
    IF Len(a) = 3 THEN FSub(FMul(Int2F(k), a), c)
    ELSE <<k * a[1], a[2], a[3], FSub(FMul(Int2F(k), a[4]), c)>>
\* std::f64::consts::FRAC_PI_2
FRAC_PI_2 == Half

\* Quaternion::euler_angles on w = scalar, [x, y, z] = vector
EulerOf(w, x, y, z) ==
    <<Atan2(FMul(Int2F(2), FAdd(FMul(w, x), FMul(y, z))),
            FSub(One, FMul(Int2F(2), FAdd(FMul(x, x), FMul(y, y))))),
      AngleTimesMinus(
          Atan2(Sqrt(FAdd(One, FMul(Int2F(2), FSub(FMul(w, y), FMul(x, z))))),
                Sqrt(FSub(One, FMul(Int2F(2), FSub(FMul(w, y), FMul(x, z)))))),
          2, FRAC_PI_2),
      Atan2(FMul(Int2F(2), FAdd(FMul(w, z), FMul(x, y))),
            FSub(One, FMul(Int2F(2), FAdd(FMul(y, y), FMul(z, z)))))>>
\* Quaternion::euler_angles reading the vector part as [y, x, z]
Quaternion_euler_angles_yxz(self) ==
    EulerOf(self.scalar, self.vector[2], self.vector[1], self.vector[3])
Quaternion_euler_angles(self) ==
    EulerOf(self.scalar, self.vector[1], self.vector[2], self.vector[3])

\* ----------------------------------------------------- decimal fixed point
\* Decimal literals of the source are carried to four decimals: the integer n
\* stands for n / Scale.  Scale = Kilo * Kilo.
Kilo == 10 ^ 2
Scale == Kilo * Kilo

\* floor(a * Scale / b) for a >= 0, b > 0, by long division
XDivAbs(a, b) ==
    (a \div b) * Scale + (((a % b) * Kilo) \div b) * Kilo
        + ((((a % b) * Kilo) % b) * Kilo) \div b
\* floor(a * b / Scale) for a, b >= 0, by split multiplication
XMulAbs(a, b) ==
    (a \div Kilo) * (b \div Kilo)
        + (((a \div Kilo) * (b % Kilo) + (a % Kilo) * (b \div Kilo)) * Kilo
           + (a % Kilo) * (b % Kilo)) \div Scale
XMul(a, b) == Sgn(a) * Sgn(b) * XMulAbs(Abs(a), Abs(b))
XDiv(a, b) == Sgn(a) * Sgn(b) * XDivAbs(Abs(a), Abs(b))
\* square root of a >= 0, truncated to two decimals
XSqrt(a) == Isqrt(a) * Kilo

\* the f64 literal n/d (d a power of ten), rounded to four decimals
Lit(n, d) ==
    IF d <= Scale THEN Norm(n, 0, d)
    ELSE Norm(Sgn(n) * ((Abs(n) \div (d \div Scale))
                        + (IF 2 * (Abs(n) % (d \div Scale)) >= d \div Scale
                           THEN 1 ELSE 0)),
              0, Scale)
\* an f64 on the four-decimal grid as a fixed-point integer, and back
ToFixed(x) == (x[1] * (Scale \div x[3]))
FromFixed(n) == Norm(n, 0, Scale)

\* ------------------------------------------------------------------ Conic
Conic_m1 == [radius |-> Lit(36, 1), constant |-> Lit(0 - 9982857, 10000000)]
Conic_m2 == [radius |-> Lit(0 - 41639009, 10000000),
             constant |-> Lit(0 - 71692784, 100000000)]
\* Conic::height with c = |radius|, rho2 = rho * rho, in fixed point
HeightOf(radius, constant, c, rho2) ==
    FromFixed(XDiv(Sgn(radius) * rho2,
                   c + XSqrt(XMul(c, c) - XMul(constant + Scale, rho2))))
Conic_height(self, rho) ==
    HeightOf(ToFixed(self.radius), ToFixed(self.constant),
             Abs(ToFixed(self.radius)), XMul(ToFixed(rho), ToFixed(rho)))

\* ---------------------------------------------------------------- Segment
None == <<>>
Some(x) == <<x>>
Ok(x) == [ok |-> TRUE, val |-> x]
Err(e) == [ok |-> FALSE, err |-> e]
\* Error::SegmentId(i32)
SegmentId(i) == <<"SegmentId", i>>

\* SegmentM1_new with the range arm written 0..=6
SegmentM1_new_range0(id) ==
    IF id = 7 THEN
        Ok([id |-> 7, height |-> Lit(39, 10), beta |-> None, distance |-> None,
            cloking |-> None, conic |-> Conic_m1, mirror |-> "M1"])
    ELSE IF id \in 0..6 THEN
        Ok([id |-> id, height |-> Lit(39, 10), beta |-> Some(BETA_M1),
            distance |-> Some(Lit(871, 100)),
            cloking |-> Some((0 - 60) * (id - 1)),
            conic |-> Conic_m1, mirror |-> "M1"])
    ELSE Err(SegmentId(id))
\* <Segment<M1> as SegmentTrait>::new
SegmentM1_new(id) ==
    IF id = 7 THEN
        Ok([id |-> 7, height |-> Lit(39, 10), beta |-> None, distance |-> None,
            cloking |-> None, conic |-> Conic_m1, mirror |-> "M1"])
    ELSE IF id \in 1..6 THEN
        Ok([id |-> id, height |-> Lit(39, 10), beta |-> Some(BETA_M1),
            distance |-> Some(Lit(871, 100)),
            cloking |-> Some((0 - 60) * (id - 1)),
            conic |-> Conic_m1, mirror |-> "M1"])
    ELSE Err(SegmentId(id))
\* SegmentM2_new without the center arm, the range arm written 1..=7
SegmentM2_new_nocenter(id) ==
    IF id \in 1..7 THEN
        Ok([id |-> id, height |-> FAdd(Lit(39, 10), Lit(2026247614, 100000000)),
            beta |-> Some(BETA_M2),
            distance |-> Some(Lit(108774, 100000)),
            cloking |-> Some(180 - 60 * (id - 1)),
            conic |-> Conic_m2, mirror |-> "M2"])
    ELSE Err(SegmentId(id))
\* <Segment<M2> as SegmentTrait>::new
SegmentM2_new(id) ==
    IF id = 7 THEN
        Ok([id |-> 7, height |-> FAdd(Lit(39, 10), Lit(2026247614, 100000000)),
            beta |-> None, distance |-> None,
            cloking |-> None, conic |-> Conic_m2, mirror |-> "M2"])
    ELSE IF id \in 1..6 THEN
        Ok([id |-> id, height |-> FAdd(Lit(39, 10), Lit(2026247614, 100000000)),
            beta |-> Some(BETA_M2),
            distance |-> Some(Lit(108774, 100000)),
            cloking |-> Some(180 - 60 * (id - 1)),
            conic |-> Conic_m2, mirror |-> "M2"])
    ELSE Err(SegmentId(id))
\* Segment_new building the M2 descriptor with the clocking of M1
Segment_new_m1clock(m, id) ==
    IF m = "M1" THEN SegmentM1_new(id)
    ELSE LET r == SegmentM2_new(id)
         IN  IF r.ok /\ r.val.cloking # None
             THEN Ok([r.val EXCEPT !.cloking = Some((0 - 60) * (id - 1))])
             ELSE r
Segment_new(m, id) == IF m = "M1" THEN SegmentM1_new(id) ELSE SegmentM2_new(id)

\* [d * c, d * s, self.height + z] with (s, c) the sin_cos of the angle a
TranslationOf(d, a, hz) == Vector_from_array(<<FMul(d, Cos(a)), FMul(d, Sin(a)), hz>>)
\* Segment::translation with the in-plane angle 90 - o
Segment_translation_minus(self) ==
    IF self.id < 7 THEN
        TranslationOf(self.distance[1],
                      to_radians(FSub(Int2F(90), Int2F(self.cloking[1]))),
                      FAdd(self.height, Conic_height(self.conic, self.distance[1])))
    ELSE Vector_from_array(<<Zero, Zero, self.height>>)
\* Segment::translation with the center arm returning the null vector
Segment_translation_noheight(self) ==
    IF self.id < 7 THEN
        IF self.cloking = None \/ self.distance = None THEN Panic
        ELSE <<FMul(self.distance[1],
                    Cos(to_radians(FAdd(Int2F(90), Int2F(self.cloking[1]))))),
               FMul(self.distance[1],
                    Sin(to_radians(FAdd(Int2F(90), Int2F(self.cloking[1]))))),
               FAdd(self.height, Conic_height(self.conic, self.distance[1]))>>
    ELSE Vector_null
\* Segment::translation; Panic when an unwrapped field is absent
Segment_translation(self) ==
    IF self.id < 7 THEN
        IF self.cloking = None \/ self.distance = None THEN Panic
        ELSE
            TranslationOf(self.distance[1],
                          to_radians(FAdd(Int2F(90), Int2F(self.cloking[1]))),
                          FAdd(self.height,
                               Conic_height(self.conic, self.distance[1])))
    ELSE Vector_from_array(<<Zero, Zero, self.height>>)

\* <Segment<M1> as SegmentTrait>::rotation (the same in both revisions)
M1_rotation(self) ==
    IF self.id < 7 THEN
        IF self.cloking = None \/ self.beta = None THEN Panic
        ELSE
            Some(Quaternion_mul(
                    Quaternion_unit(to_radians(Int2F(self.cloking[1])), Vector_k),
                    Quaternion_unit(to_radians(self.beta[1]), Vector_i)))
    ELSE None
\* M2_rotation giving the center segment the flip about j and k
M2_rotation_center(self) ==
    IF self.id < 7 THEN
        Some(Quaternion_mul(
                Quaternion_mul(
                    Quaternion_unit(to_radians(Int2F(self.cloking[1])), Vector_k),
                    Quaternion_unit(PI, Vector_j)),
                Quaternion_unit(to_radians(self.beta[1]), Vector_i)))
    ELSE Some(Quaternion_mul(Quaternion_unit(to_radians(Int2F(180)), Vector_k),
                             Quaternion_unit(PI, Vector_j)))
\* <Segment<M2> as SegmentTrait>::rotation of src/lib.rs
M2_rotation(self) ==
    IF self.id < 7 THEN
        IF self.cloking = None \/ self.beta = None THEN Panic
        ELSE
            Some(Quaternion_mul(
                    Quaternion_mul(
                        Quaternion_unit(to_radians(Int2F(self.cloking[1])), Vector_k),
                        Quaternion_unit(PI, Vector_j)),
                    Quaternion_unit(to_radians(self.beta[1]), Vector_i)))
    ELSE None
\* <Segment<M2> as SegmentTrait>::rotation of src/segment.rs
M2_rotation_v2(self) ==
    IF self.id < 7 THEN
        IF self.cloking = None \/ self.beta = None THEN Panic
        ELSE
            Some(Quaternion_mul(
                    Quaternion_mul(
                        Quaternion_unit(to_radians(Int2F(self.cloking[1])), Vector_k),
                        Quaternion_unit(PI, Vector_j)),
                    Quaternion_unit(to_radians(self.beta[1]), Vector_i)))
    ELSE Some(Quaternion_mul(Quaternion_unit(to_radians(Int2F(180)), Vector_k),
                             Quaternion_unit(PI, Vector_j)))
\* dispatch on the mirror type M of Segment<M>
Segment_rotation(self) ==
    IF self.mirror = "M1" THEN M1_rotation(self) ELSE M2_rotation(self)
Segment_rotation_v2(self) ==
    IF self.mirror = "M1" THEN M1_rotation(self) ELSE M2_rotation_v2(self)

\* ------------------------------------------------- Transform (src/lib.rs)
\* fro_body rotating with q . q* instead of q* . q
fro_body_direct(self, t, r) ==
    IF r # None THEN
        Vector_from_slice(Quaternion_vector_as_slice(
            Quaternion_mul(
                Quaternion_mul(r[1],
                               Quaternion_sub(Quaternion_from_vector(self),
                                              Quaternion_from_vector(t))),
                Quaternion_complex_conjugate(r[1]))))
    ELSE Vector_sub(self, t)
\* Transform::fro on the Ok arm: OSS -> segment, point
fro_body(self, t, r) ==
    LET u == Vector_from_array(self)
    IN  IF t = Panic \/ r = Panic THEN Panic
        ELSE IF r # None THEN
            LET q == r[1]
                p == Quaternion_from_vector(u)
            IN  Vector_from_slice(Quaternion_vector_as_slice(
                    Quaternion_mul(
                        Quaternion_mul(Quaternion_complex_conjugate(q),
                                       Quaternion_sub(p, Quaternion_from_vector(t))),
                        q)))
        ELSE Vector_sub(u, t)
\* vfrov_body rotating with q . q* instead of q* . q
vfrov_body_direct(self, r) ==
    IF r # None THEN
        Vector_from_slice(Quaternion_vector_as_slice(
            Quaternion_mul(Quaternion_mul(r[1], Quaternion_from_vector(self)),
                           Quaternion_complex_conjugate(r[1]))))
    ELSE self
\* Transform::vfrov on the Ok arm: OSS -> segment, vector
vfrov_body(self, r) ==
    IF r = Panic THEN Panic
    ELSE IF r # None THEN
        LET q == r[1]
            u == Vector_from_array(self)
            p == Quaternion_from_vector(u)
        IN  Vector_from_slice(Quaternion_vector_as_slice(
                Quaternion_mul(Quaternion_mul(Quaternion_complex_conjugate(q), p), q)))
    ELSE self
\* to_body translating before it rotates: q (p + t) q*
to_body_shiftfirst(self, t, r) ==
    IF r # None THEN
        Vector_from_slice(Quaternion_vector_as_slice(
            Quaternion_mul(
                Quaternion_mul(r[1],
                               Quaternion_add(Quaternion_from_vector(self),
                                              Quaternion_from_vector(t))),
                Quaternion_complex_conjugate(r[1]))))
    ELSE Vector_add(self, t)
\* Transform::to on the Ok arm: segment -> OSS, point
to_body(self, t, r) ==
    LET u == Vector_from_array(self)
    IN  IF t = Panic \/ r = Panic THEN Panic
        ELSE IF r # None THEN
            LET q == r[1]
                p == Quaternion_from_vector(u)
            IN  Vector_from_slice(Quaternion_vector_as_slice(
                    Quaternion_add(
                        Quaternion_mul(Quaternion_mul(q, p),
                                       Quaternion_complex_conjugate(q)),
                        Quaternion_from_vector(t))))
        ELSE Vector_add(u, t)
\* Transform::vtov on the Ok arm: segment -> OSS, vector
vtov_body(self, r) ==
    IF r = Panic THEN Panic
    ELSE IF r # None THEN
        LET q == r[1]
            u == Vector_from_array(self)
            p == Quaternion_from_vector(u)
        IN  Vector_from_slice(Quaternion_vector_as_slice(
                Quaternion_mul(Quaternion_mul(q, p), Quaternion_complex_conjugate(q))))
    ELSE self

\* maybe_segment.map(|segment| ...): the closure on Ok, the error passed on
Transform_fro(self, maybe_segment) ==
    IF maybe_segment.ok
    THEN Ok(fro_body(self, Segment_translation(maybe_segment.val),
                     Segment_rotation(maybe_segment.val)))
    ELSE Err(maybe_segment.err)
Transform_vfrov(self, maybe_segment) ==
    IF maybe_segment.ok
    THEN Ok(vfrov_body(self, Segment_rotation(maybe_segment.val)))
    ELSE Err(maybe_segment.err)
Transform_to(self, maybe_segment) ==
    IF maybe_segment.ok
    THEN Ok(to_body(self, Segment_translation(maybe_segment.val),
                    Segment_rotation(maybe_segment.val)))
    ELSE Err(maybe_segment.err)
\* Transform::vtov with the body of Transform::to (the translation added)
Transform_vtov_shift(self, maybe_segment) ==
    IF maybe_segment.ok
    THEN Ok(to_body(self, Segment_translation(maybe_segment.val),
                    Segment_rotation(maybe_segment.val)))
    ELSE Err(maybe_segment.err)
Transform_vtov(self, maybe_segment) ==
    IF maybe_segment.ok
    THEN Ok(vtov_body(self, Segment_rotation(maybe_segment.val)))
    ELSE Err(maybe_segment.err)

\* -------------------------------------------- Transform (src/transform.rs)
fro_body_v2(self, t, r) ==
    IF t = Panic \/ r = Panic THEN Panic
    ELSE IF r # None THEN
        Vector_from_slice(Quaternion_vector_as_slice(
            Quaternion_mul(
                Quaternion_mul(Quaternion_complex_conjugate(r[1]),
                               Quaternion_from_vector(
                                   Vector_sub(Vector_from_array(self), t))),
                r[1])))
    ELSE Vector_sub(Vector_from_array(self), t)
Transform_fro_v2(self, segment) ==
    fro_body_v2(self, Segment_translation(segment), Segment_rotation_v2(segment))
Transform_vfrov_v2(self, segment) == vfrov_body(self, Segment_rotation_v2(segment))
Transform_to_v2(self, segment) ==
    to_body(self, Segment_translation(segment), Segment_rotation_v2(segment))
Transform_vtov_v2(self, segment) == vtov_body(self, Segment_rotation_v2(segment))

\* ------------------------------------------ TransformMut (src/lib.rs)
\* Each returns <<the triple left behind self, the Result returned>>.
Unit == <<>>
\* the closure of map dropping v instead of storing it in self
MutMap_drop(self, res) == IF res.ok THEN <<self, Ok(Unit)>> ELSE <<self, Err(res.err)>>
\* the closure of map run on an error as well, storing the null vector
MutMap_clobber(self, res) ==
    IF res.ok THEN <<res.val, Ok(Unit)>> ELSE <<Vector_null, Err(res.err)>>
MutMap(self, res) == IF res.ok THEN <<res.val, Ok(Unit)>> ELSE <<self, Err(res.err)>>
TransformMut_fro(self, maybe_segment) == MutMap(self, Transform_fro(self, maybe_segment))
TransformMut_vfrov(self, maybe_segment) == MutMap(self, Transform_vfrov(self, maybe_segment))
TransformMut_to(self, maybe_segment) == MutMap(self, Transform_to(self, maybe_segment))
TransformMut_vtov(self, maybe_segment) == MutMap(self, Transform_vtov(self, maybe_segment))
\* ------------------------------------- TransformMut (src/transform.rs)
\* Each returns the triple left behind self.
TransformMut_fro_v2(self, segment) == Transform_fro_v2(self, segment)
TransformMut_vfrov_v2(self, segment) == Transform_vfrov_v2(self, segment)
TransformMut_to_v2(self, segment) == Transform_to_v2(self, segment)
TransformMut_vtov_v2(self, segment) == Transform_vtov_v2(self, segment)

\* ------------------------------------------------------- payload shapes
\* impl From<Vec<f64>> for Vector
Vector_from_vec(v) == <<v[1], v[2], v[3]>>
\* the payload types S with `impl Transform for S` (src/lib.rs)
TransformImpls == {"[f64; 3]", "Vec<f64>"}
\* the payload types S with `impl Transform for S` (src/transform.rs)
TransformImpls_v2 == {"[f64; 3]", "Vec<f64>", "Vector"}
\* TransformMutImpls with an impl for &mut Vec<f64> as well
TransformMutImpls_vec == {"[f64; 3]", "Vec<f64>"}
\* the payload types S with `impl TransformMut for &mut S` (src/lib.rs)
TransformMutImpls == {"[f64; 3]"}
\* the payload types S with `impl TransformMut for &mut S` (src/transform.rs)
TransformMutImpls_v2 == {"[f64; 3]"}
\* self.into(): the Vector of a payload of the given type
IntoVector(shape, p) ==
    CASE shape = "[f64; 3]" -> Vector_from_array(p)
      [] shape = "Vec<f64>" -> Vector_from_vec(p)
      [] shape = "Vector" -> p
\* the four methods of the traits, by name
TransformOps == {"fro", "vfrov", "to", "vtov"}
TransformBy(op, u, maybe_segment) ==
    CASE op = "fro" -> Transform_fro(u, maybe_segment)
      [] op = "vfrov" -> Transform_vfrov(u, maybe_segment)
      [] op = "to" -> Transform_to(u, maybe_segment)
      [] op = "vtov" -> Transform_vtov(u, maybe_segment)
TransformBy_v2(op, u, segment) ==
    CASE op = "fro" -> Transform_fro_v2(u, segment)
      [] op = "vfrov" -> Transform_vfrov_v2(u, segment)
      [] op = "to" -> Transform_to_v2(u, segment)
      [] op = "vtov" -> Transform_vtov_v2(u, segment)

\* ------------------------------------- Mirror tip-tilt to rigid-body motions
\* rotate(v, q): the vector part of q v q*
RotateBy(v, q) ==
    Quaternion_vector_as_slice(
        Quaternion_mul(Quaternion_mul(q, Quaternion_from_vector(v)),
                       Quaternion_complex_conjugate(q)))
\* q_tt = unit(theta_x, i) . unit(theta_y, j)
TipTiltQuaternion(tt) ==
    Quaternion_mul(Quaternion_unit(tt[1], Vector_i), Quaternion_unit(tt[2], Vector_j))
\* the OSS coordinates of the origin of a segment: null().to(segment)
OssOrigin(maybe_segment) == Transform_to(Vector_null, maybe_segment).val
\* displaced_origin = rotate(v_seg - v7, q_tt) + v7
DisplacedOrigin(v_seg, v7, q_tt) ==
    Vector_add(RotateBy(Vector_sub(v_seg, v7), q_tt), v7)
\* the tip-tilt seen in the local frame: q_s* . q_tt . q_s, or q_tt when the
\* segment has no rotation
LocalTipTilt(q_s, q_tt) ==
    IF q_s # None
    THEN Quaternion_mul(Quaternion_mul(Quaternion_complex_conjugate(q_s[1]), q_tt),
                        q_s[1])
    ELSE q_tt
\* the six numbers of one segment: translation_rbm = displaced_origin.fro(
\* segment), then (roll, pitch, yaw); a panic of the transforms propagates
RbmBlock(displaced_origin, maybe_segment, q_local) ==
    IF displaced_origin = Panic THEN Panic
    ELSE Transform_fro(displaced_origin, maybe_segment).val
            \o Quaternion_euler_angles(q_local)
SegmentRbm(maybe_segment, maybe_segment7, q_tt) ==
    RbmBlock(DisplacedOrigin(OssOrigin(maybe_segment), OssOrigin(maybe_segment7), q_tt),
             maybe_segment,
             LocalTipTilt(Segment_rotation(maybe_segment.val), q_tt))
\* tip_tilt_to_rbm with the blocks emitted from segment 7 down to segment 1
Mirror_tip_tilt_to_rbm_down(m, tt) ==
    LET blocks[id \in 0..7] ==
            IF id < 1 THEN <<>>
            ELSE SegmentRbm(Segment_new(m, id), Segment_new(m, 7),
                            TipTiltQuaternion(tt)) \o blocks[id - 1]
    IN  blocks[7]
\* Mirror<M>::tip_tilt_to_rbm((theta_x, theta_y)): the blocks of the
\* segments id = 1, 2, ..., 7 appended one after the other
Mirror_tip_tilt_to_rbm(m, tt) ==
    LET blocks[id \in 1..8] ==
            IF id > 7 THEN <<>>
            ELSE SegmentRbm(Segment_new(m, id), Segment_new(m, 7),
                            TipTiltQuaternion(tt)) \o blocks[id + 1]
    IN  blocks[1]

\* ------------------------------------------- Frame (src/lib.rs, deprecated)
BETA == Rat(13601685, 1000000)
L == Lit(871, 100)
\* fn conic(rho), with c = 36 and kp = -0.998286, in fixed point
conic(rho) ==
    HeightOf(ToFixed(Lit(36, 1)), ToFixed(Lit(0 - 998286, 1000000)),
             ToFixed(Lit(36, 1)), XMul(ToFixed(rho), ToFixed(rho)))
\* a value of enum Frame<T>: the variant's name and its payload
Frame(name, u) == [frame |-> name, val |-> u]
\* the variants M1S1 .. M1S7 by segment number
FrameNames == <<"M1S1", "M1S2", "M1S3", "M1S4", "M1S5", "M1S6", "M1S7">>
\* the angle o each arm of Frame::to passes to direct / inverse
FrameClocking(name) ==
    CASE name = "M1S1" -> Int2F(0)
      [] name = "M1S2" -> Int2F(0 - 60)
      [] name = "M1S3" -> Int2F(0 - 120)
      [] name = "M1S4" -> Int2F(0 - 180)
      [] name = "M1S5" -> Int2F(0 - 240)
      [] name = "M1S6" -> Int2F(0 - 300)
\* fn operators(o) -> (t, q)
Frame_operators(o) ==
    <<Vector_from_array(<<FMul(L, Cos(to_radians(FAdd(Int2F(90), o)))),
                          FMul(L, Sin(to_radians(FAdd(Int2F(90), o)))),
                          FAdd(Lit(39, 10), conic(L))>>),
      Quaternion_mul(Quaternion_unit(to_radians(o), Vector_k),
                     Quaternion_unit(to_radians(BETA), Vector_i))>>
\* fn direct(u, v, o): the value stored in *v, for (t, q) = tq
DirectWith(u, tq) ==
    Vector_from_slice(Quaternion_vector_as_slice(
        Quaternion_add(
            Quaternion_mul(Quaternion_mul_ref_into(tq[2], Quaternion_from_vector(u)),
                           Quaternion_complex_conjugate(tq[2])),
            Quaternion_from_vector(tq[1]))))
Frame_direct(u, o) == DirectWith(u, Frame_operators(o))
\* fn inverse(u, v, o): the value stored in *v, for (t, q) = tq
InverseWith(u, tq) ==
    Vector_from_slice(Quaternion_vector_as_slice(
        Quaternion_mul_own_ref(
            Quaternion_mul(Quaternion_complex_conjugate(tq[2]),
                           Quaternion_sub(Quaternion_from_vector(u),
                                          Quaternion_from_vector(tq[1]))),
            tq[2])))
Frame_inverse(u, o) == InverseWith(u, Frame_operators(o))
\* Frame::to treating M1S7 as a segment frame at the mirror height: the
\* center arms subtract / add (0, 0, 3.9)
Frame_to_shift(self, frame) ==
    IF self.frame = "OSS" THEN
        IF frame.frame = "OSS" THEN self.val
        ELSE IF frame.frame = "M1S7"
        THEN Vector_sub(self.val, <<Zero, Zero, Lit(39, 10)>>)
        ELSE Frame_direct(self.val, FrameClocking(frame.frame))
    ELSE IF frame.frame = "OSS" THEN
        IF self.frame = "M1S7"
        THEN Vector_add(self.val, <<Zero, Zero, Lit(39, 10)>>)
        ELSE Frame_inverse(self.val, FrameClocking(self.frame))
    ELSE Panic
\* Frame::to(self, frame): the value stored in the vector frame refers to,
\* or Panic where the arm is unimplemented!()
Frame_to(self, frame) ==
    IF self.frame = "OSS" THEN
        IF frame.frame \in {"M1S7", "OSS"}
        THEN Vector_from_slice(Quaternion_vector_as_slice(
                 Quaternion_from_vector(self.val)))
        ELSE Frame_direct(self.val, FrameClocking(frame.frame))
    ELSE IF frame.frame = "OSS" THEN
        IF self.frame = "M1S7"
        THEN Vector_from_slice(Quaternion_vector_as_slice(
                 Quaternion_from_vector(self.val)))
        ELSE Frame_inverse(self.val, FrameClocking(self.frame))
    ELSE Panic
\* m1_any_to_oss with the arm `_` calling M1S7(u).to(OSS(&mut v))
m1_any_to_oss_center(sid, p) ==
    IF sid \in 1..6
    THEN Frame_to(Frame(FrameNames[sid], Vector_from_array(p)), Frame("OSS", Vector_null))
    ELSE Frame_to(Frame("M1S7", Vector_from_array(p)), Frame("OSS", Vector_null))
\* pub fn m1_any_to_oss(sid: usize, p) -> Vector
m1_any_to_oss(sid, p) ==
    IF sid \in 1..7
    THEN Frame_to(Frame(FrameNames[sid], Vector_from_array(p)), Frame("OSS", Vector_null))
    ELSE Vector_null
\* pub fn oss_to_any_m1(sid: usize, p) -> Vector
oss_to_any_m1(sid, p) ==
    IF sid \in 1..7
    THEN Frame_to(Frame("OSS", Vector_from_array(p)), Frame(FrameNames[sid], Vector_null))
    ELSE Vector_null

\* ------------------------------------------------------------ the program
VARIABLES
    rev,      \* "lib": the API of src/lib.rs; "v2": src/segment.rs + transform.rs
    mirror,   \* the mirror type M: "M1" or "M2"
    id,       \* the i32 passed to Segment::<M>::new
    seg,      \* None before the call of new, then Some(its Result)
    u0,       \* the caller's coordinate triple
    val,      \* what the last functional transform returned (u0 before any)
    fhist,    \* the functional transforms applied so far, in order
    buf,      \* the caller's mutable triple (&mut [f64; 3]), u0 at first
    bufPrev,  \* buf as it was before the last mutating transform
    mret,     \* None, or Some(what the last mutating transform returned)
    mhist,    \* the mutating transforms applied so far, in order
    callOp,   \* the library function a caller has called directly ("none" before)
    callArgs, \* the arguments of that call
    callRet   \* what it returned

vars == <<rev, mirror, id, seg, u0, val, fhist, buf, bufPrev, mret, mhist,
          callOp, callArgs, callRet>>
\* the variables of a direct library call, and those of a segment session
callVars == <<callOp, callArgs, callRet>>
segVars == <<rev, mirror, id, seg, u0, val, fhist, buf, bufPrev, mret, mhist>>

Ids == (1 - IdSlack)..(7 + IdSlack)
Coords == (0 - MaxNorm1)..MaxNorm1
Triples ==
    {<<Int2F(p[1]), Int2F(p[2]), Int2F(p[3])>> :
        p \in {c \in Coords \X Coords \X Coords :
                  Abs(c[1]) + Abs(c[2]) + Abs(c[3]) <= MaxNorm1}}

Init ==
    /\ rev \in {"lib", "v2"}
    /\ mirror \in {"M1", "M2"}
    /\ id \in Ids
    /\ seg = None
    /\ u0 \in Triples
    /\ val = u0
    /\ fhist = <<>>
    /\ buf = u0
    /\ bufPrev = u0
    /\ mret = None
    /\ mhist = <<>>
    /\ callOp = "none"
    /\ callArgs = <<>>
    /\ callRet = <<>>

\* Segment::<M>::new(id)
New ==
    /\ seg = None
    /\ seg' = Some(Segment_new(mirror, id))
    /\ UNCHANGED <<rev, mirror, id, u0, val, fhist, buf, bufPrev, mret, mhist>>
    /\ UNCHANGED callVars

Inverse(op) ==
    CASE op = "to" -> "fro"
      [] op = "fro" -> "to"
      [] op = "vtov" -> "vfrov"
      [] op = "vfrov" -> "vtov"
\* A run applies one flavor (functional or mutating); a chain is one transform,
\* optionally followed by its inverse (a round trip)
MayApply(hist, op) == hist = <<>> \/ hist = <<Inverse(op)>>

\* the triple the next functional transform of src/lib.rs consumes:
\* u0, or the unwrapped Ok of the previous call
FArg == IF fhist = <<>> THEN val ELSE val.val
FReady(op) ==
    /\ rev = "lib"
    /\ seg # None
    /\ mhist = <<>>
    /\ MayApply(fhist, op)
    /\ fhist # <<>> => val.ok
FStep(op, result) ==
    /\ val' = result
    /\ fhist' = Append(fhist, op)
    /\ UNCHANGED <<rev, mirror, id, seg, u0, buf, bufPrev, mret, mhist>>
    /\ UNCHANGED callVars
To == FReady("to") /\ FStep("to", Transform_to(FArg, seg[1]))
Fro == FReady("fro") /\ FStep("fro", Transform_fro(FArg, seg[1]))
Vtov == FReady("vtov") /\ FStep("vtov", Transform_vtov(FArg, seg[1]))
Vfrov == FReady("vfrov") /\ FStep("vfrov", Transform_vfrov(FArg, seg[1]))

MReady(op) ==
    /\ rev = "lib"
    /\ seg # None
    /\ fhist = <<>>
    /\ MayApply(mhist, op)
    /\ mret # None => mret[1].ok
MStep(op, pair) ==
    /\ buf' = pair[1]
    /\ mret' = Some(pair[2])
    /\ bufPrev' = buf
    /\ mhist' = Append(mhist, op)
    /\ UNCHANGED <<rev, mirror, id, seg, u0, val, fhist>>
    /\ UNCHANGED callVars
MutTo == MReady("to") /\ MStep("to", TransformMut_to(buf, seg[1]))
MutFro == MReady("fro") /\ MStep("fro", TransformMut_fro(buf, seg[1]))
MutVtov == MReady("vtov") /\ MStep("vtov", TransformMut_vtov(buf, seg[1]))
MutVfrov == MReady("vfrov") /\ MStep("vfrov", TransformMut_vfrov(buf, seg[1]))

\* src/transform.rs takes a Segment<M>: the caller has unwrapped the Result
\* of new, which is possible only when it is Ok
FReady2(op) ==
    /\ rev = "v2"
    /\ seg # None
    /\ seg[1].ok
    /\ mhist = <<>>
    /\ MayApply(fhist, op)
To2 == FReady2("to") /\ FStep("to", Transform_to_v2(val, seg[1].val))
Fro2 == FReady2("fro") /\ FStep("fro", Transform_fro_v2(val, seg[1].val))
Vtov2 == FReady2("vtov") /\ FStep("vtov", Transform_vtov_v2(val, seg[1].val))
Vfrov2 == FReady2("vfrov") /\ FStep("vfrov", Transform_vfrov_v2(val, seg[1].val))

MReady2(op) ==
    /\ rev = "v2"
    /\ seg # None
    /\ seg[1].ok
    /\ fhist = <<>>
    /\ MayApply(mhist, op)
MutTo2 == MReady2("to") /\ MStep("to", <<TransformMut_to_v2(buf, seg[1].val), Unit>>)
MutFro2 == MReady2("fro") /\ MStep("fro", <<TransformMut_fro_v2(buf, seg[1].val), Unit>>)
MutVtov2 == MReady2("vtov") /\ MStep("vtov", <<TransformMut_vtov_v2(buf, seg[1].val), Unit>>)
MutVfrov2 == MReady2("vfrov") /\ MStep("vfrov", <<TransformMut_vfrov_v2(buf, seg[1].val), Unit>>)

Next ==
    \/ New
    \/ To \/ Fro \/ Vtov \/ Vfrov
    \/ MutTo \/ MutFro \/ MutVtov \/ MutVfrov
    \/ To2 \/ Fro2 \/ Vtov2 \/ Vfrov2
    \/ MutTo2 \/ MutFro2 \/ MutVtov2 \/ MutVfrov2

Spec == Init /\ [][Next]_vars

\* ------------------------------------------------ direct library calls
\* A caller makes one call of a public function on arguments of its choice.
\* Operands: the integer quaternions (s, (x, y, z)) with |s|+|x|+|y|+|z| <=
\* MaxNorm1, and the operands of the tests of quaternion.rs and vector.rs.
TestP == [scalar |-> Int2F(3), vector |-> <<Int2F(1), Int2F(0 - 2), Int2F(1)>>]
TestQ == [scalar |-> Int2F(2), vector |-> <<Int2F(0 - 1), Int2F(2), Int2F(3)>>]
Quats ==
    {[scalar |-> Int2F(c[1]), vector |-> <<Int2F(c[2]), Int2F(c[3]), Int2F(c[4])>>] :
        c \in {c \in Coords \X Coords \X Coords \X Coords :
                  Abs(c[1]) + Abs(c[2]) + Abs(c[3]) + Abs(c[4]) <= MaxNorm1}}
        \cup {TestP, TestQ}
Vectors == Triples \cup {TestP.vector, TestQ.vector}
Scalars == {Int2F(n) : n \in Coords \cup {3}}

InitCalls ==
    /\ rev = "lib"
    /\ mirror = "M1"
    /\ id = 1
    /\ seg = None
    /\ u0 = Vector_null
    /\ val = u0
    /\ fhist = <<>>
    /\ buf = u0
    /\ bufPrev = u0
    /\ mret = None
    /\ mhist = <<>>
    /\ callOp = "none"
    /\ callArgs = <<>>
    /\ callRet = <<>>

Call(op, args, ret) ==
    /\ callOp = "none"
    /\ callOp' = op
    /\ callArgs' = args
    /\ callRet' = ret
    /\ UNCHANGED segVars

\* p * q in the four operand forms
CallMul == \E p \in Quats, q \in Quats : Call("mul", <<p, q>>, Quaternion_mul(p, q))
CallMulRefInto ==
    \E p \in Quats, q \in Quats :
        Call("mul_ref_into", <<p, q>>, Quaternion_mul_ref_into(p, q))
CallMulRefRef ==
    \E p \in Quats, q \in Quats :
        Call("mul_ref_ref", <<p, q>>, Quaternion_mul_ref_ref(p, q))
CallMulOwnRef ==
    \E p \in Quats, q \in Quats :
        Call("mul_own_ref", <<p, q>>, Quaternion_mul_own_ref(p, q))

\* a.dot(&b), a.cross(&b), a.norm_squared()
CallDot == \E a \in Vectors, b \in Vectors : Call("dot", <<a, b>>, Vector_dot(a, b))
CallCross ==
    \E a \in Vectors, b \in Vectors : Call("cross", <<a, b>>, Vector_cross(a, b))
CallNormSquared == \E a \in Vectors : Call("norm_squared", <<a>>, Vector_norm_squared(a))
\* s * &a, s * a, &a * s
CallScale ==
    \E x \in Scalars, a \in Vectors : Call("scale", <<x, a>>, Vector_scale(x, a))
CallScaleOwn ==
    \E x \in Scalars, a \in Vectors : Call("scale_own", <<x, a>>, Vector_scale_own(x, a))
CallMulF64 ==
    \E x \in Scalars, a \in Vectors : Call("mul_f64", <<x, a>>, Vector_mul_f64(a, x))

\* Vector::from(v) for a slice v: &[f64]
Slices ==
    UNION {[1..n -> {Int2F(c) : c \in Coords}] : n \in 0..MaxSliceLen}
CallFromSlice == \E v \in Slices : Call("from_slice", <<v>>, Vector_from_slice(v))

\* Quaternion::unit(theta.to_radians(), u).euler_angles() for u one of
\* Vector::i(), Vector::j(), Vector::k() and theta in degrees
Thetas == {Int2F(0 - 120), Int2F(0 - 60), Zero, Int2F(60), Int2F(120), BETA_M1, BETA_M2}
Axes == <<Vector_i, Vector_j, Vector_k>>
CallEuler ==
    \E theta \in Thetas, a \in 1..3 :
        Call("euler", <<theta, a>>,
             Quaternion_euler_angles(Quaternion_unit(to_radians(theta), Axes[a])))

\* the deprecated functions on a segment number sid: usize
Sids == 0..(7 + IdSlack)
CallM1AnyToOss ==
    \E sid \in Sids, p \in Triples :
        Call("m1_any_to_oss", <<sid, p>>, m1_any_to_oss(sid, p))
CallOssToAnyM1 ==
    \E sid \in Sids, p \in Triples :
        Call("oss_to_any_m1", <<sid, p>>, oss_to_any_m1(sid, p))

\* A call of a trait method on a payload of type shape, in two steps: the
\* caller makes the call, which exists only where the trait is implemented
\* for that type, and the method returns.  callArgs holds the payload type,
\* the method, the mirror, the id given to new, and the payload.
Shapes == {"[f64; 3]", "Vec<f64>", "Vector"}
TraitCall(op, shape) ==
    \E method \in TransformOps, m \in {"M1", "M2"}, sid \in Ids, p \in Triples :
        Call(op, <<shape, method, m, sid, p>>, <<>>)
TraitReturn(called, op, ret) ==
    /\ callOp = called
    /\ callOp' = op
    /\ callRet' = ret
    /\ UNCHANGED callArgs
    /\ UNCHANGED segVars
TransformOn(shape) ==
    shape \in TransformImpls /\ TraitCall("call Transform", shape)
TransformMutOn(shape) ==
    shape \in TransformMutImpls /\ TraitCall("call TransformMut", shape)
\* src/transform.rs takes the unwrapped Segment<M>
TransformOn_v2(shape) ==
    shape \in TransformImpls_v2 /\ TraitCall("call Transform_v2", shape)
TransformMutOn_v2(shape) ==
    shape \in TransformMutImpls_v2 /\ TraitCall("call TransformMut_v2", shape)
CallTransform == \E shape \in Shapes : TransformOn(shape)
CallTransformMut == \E shape \in Shapes : TransformMutOn(shape)
CallTransform_v2 == \E shape \in Shapes : TransformOn_v2(shape)
CallTransformMut_v2 == \E shape \in Shapes : TransformMutOn_v2(shape)
\* the receiver as a Vector, and the result of Segment::<M>::new, of the call
ArgVector == IntoVector(callArgs[1], callArgs[5])
ArgSegment == Segment_new(callArgs[3], callArgs[4])
ReturnTransform ==
    TraitReturn("call Transform", "Transform",
                TransformBy(callArgs[2], ArgVector, ArgSegment))
ReturnTransformMut ==
    TraitReturn("call TransformMut", "TransformMut",
                MutMap(callArgs[5], TransformBy(callArgs[2], ArgVector, ArgSegment)))
\* (the caller's unwrap of an Err panics before the method is entered)
ReturnTransform_v2 ==
    /\ callOp = "call Transform_v2" /\ ArgSegment.ok
    /\ TraitReturn("call Transform_v2", "Transform_v2",
                   TransformBy_v2(callArgs[2], ArgVector, ArgSegment.val))
ReturnTransformMut_v2 ==
    /\ callOp = "call TransformMut_v2" /\ ArgSegment.ok
    /\ TraitReturn("call TransformMut_v2", "TransformMut_v2",
                   TransformBy_v2(callArgs[2], ArgVector, ArgSegment.val))

\* Mirror::<M>::tip_tilt_to_rbm on a (tip, tilt) pair, in radians
TipTilts == {to_radians(Int2F(0 - 60)), Zero, to_radians(Int2F(60))}
CallTipTilt ==
    \E m \in {"M1", "M2"}, tip \in TipTilts, tilt \in TipTilts :
        Call("tip_tilt_to_rbm", <<m, <<tip, tilt>>>>,
             Mirror_tip_tilt_to_rbm(m, <<tip, tilt>>))

\* source.to(target) on any two variants of Frame
FrameVariants == {"OSS"} \cup {FrameNames[k] : k \in 1..7}
CallFrameTo ==
    \E source \in FrameVariants, target \in FrameVariants, p \in Triples :
        Call("Frame::to", <<source, target, p>>,
             Frame_to(Frame(source, Vector_from_array(p)), Frame(target, Vector_null)))

NextCalls ==
    \/ CallFromSlice
    \/ CallMul \/ CallMulRefInto \/ CallMulRefRef \/ CallMulOwnRef
    \/ CallDot \/ CallCross \/ CallNormSquared
    \/ CallScale \/ CallScaleOwn \/ CallMulF64
    \/ CallEuler
    \/ CallTransform \/ CallTransformMut
    \/ CallTransform_v2 \/ CallTransformMut_v2
    \/ ReturnTransform \/ ReturnTransformMut
    \/ ReturnTransform_v2 \/ ReturnTransformMut_v2
    \/ CallM1AnyToOss \/ CallOssToAnyM1
    \/ CallFrameTo
    \/ CallTipTilt

SpecCalls == InitCalls /\ [][NextCalls]_vars

\* ================================================================= claims
Built == seg # None
BuiltOk == seg # None /\ seg[1].ok
\* the descriptor returned by new (when BuiltOk)
TheSeg == seg[1].val

\* C1: new(id) is Ok exactly when 1 <= id <= 7, on both mirrors; otherwise
\* it is the invalid-segment-id error carrying the rejected id itself.
C1_NewOkIffInRange ==
    Built =>
        /\ seg[1].ok <=> (1 <= id /\ id <= 7)
        /\ ~seg[1].ok => seg[1].err = <<"SegmentId", id>>
\* a rejected id below the range, on M1
C1_Witness == Built /\ ~seg[1].ok /\ id = 0 /\ mirror = "M1"

\* C2: a constructed descriptor stores the requested id; the center segment
\* has no beta, distance, clocking; segments 1..6 have all three; hence
\* translation() and rotation() never hit an absent field.
C2_OptionalFields ==
    BuiltOk =>
        /\ TheSeg.id = id
        /\ id = 7 => TheSeg.beta = None /\ TheSeg.distance = None
                     /\ TheSeg.cloking = None
        /\ id \in 1..6 => TheSeg.beta # None /\ TheSeg.distance # None
                          /\ TheSeg.cloking # None
        /\ Segment_translation(TheSeg) # Panic
        /\ Segment_rotation(TheSeg) # Panic
        /\ Segment_rotation_v2(TheSeg) # Panic
\* the M2 center segment has been constructed
C2_Witness == BuiltOk /\ id = 7 /\ mirror = "M2" /\ TheSeg.beta = None

\* C3: the clocking of segment id in 1..6 is -60(id-1) degrees on M1 and
\* 180-60(id-1) on M2: six distinct angles 60 degrees apart, M2 = M1 + 180.
ClockingM1 == <<0, 0 - 60, 0 - 120, 0 - 180, 0 - 240, 0 - 300>>
C3_Clocking ==
    (BuiltOk /\ id \in 1..6) =>
        /\ TheSeg.cloking =
              <<IF mirror = "M1" THEN ClockingM1[id] ELSE ClockingM1[id] + 180>>
        /\ \A j \in 1..5 :
              Segment_new(mirror, j).val.cloking[1]
                  - Segment_new(mirror, j + 1).val.cloking[1] = 60
        /\ \A j \in (1..6) \ {id} :
              Segment_new(mirror, j).val.cloking # TheSeg.cloking
\* segment 3 of M2 has been constructed
C3_Witness == BuiltOk /\ id = 3 /\ mirror = "M2" /\ TheSeg.cloking = <<60>>

\* the coordinates the last functional transform returned
FVal == IF rev = "lib" THEN val.val ELSE val
\* translation() and rotation() of the constructed segment, per revision
T == Segment_translation(TheSeg)
Rot == IF rev = "lib" THEN Segment_rotation(TheSeg) ELSE Segment_rotation_v2(TheSeg)
\* the functional transform op of the revision in force, applied to u
FunOf(op, u) ==
    IF rev = "lib" THEN
        CASE op = "to" -> Transform_to(u, seg[1]).val
          [] op = "fro" -> Transform_fro(u, seg[1]).val
          [] op = "vtov" -> Transform_vtov(u, seg[1]).val
          [] op = "vfrov" -> Transform_vfrov(u, seg[1]).val
    ELSE
        CASE op = "to" -> Transform_to_v2(u, TheSeg)
          [] op = "fro" -> Transform_fro_v2(u, TheSeg)
          [] op = "vtov" -> Transform_vtov_v2(u, TheSeg)
          [] op = "vfrov" -> Transform_vfrov_v2(u, TheSeg)

\* C4: a point sent to the OSS with `to` and brought back with `fro` through
\* the same segment is the point one started from (both flavors).
C4_PointRoundTrip ==
    BuiltOk =>
        /\ fhist = <<"to", "fro">> => FVal = u0
        /\ mhist = <<"to", "fro">> => buf = u0
\* a round trip of a non-null point through a rotated, off-axis M2 segment
C4_Witness ==
    /\ BuiltOk /\ mirror = "M2" /\ id = 2 /\ fhist = <<"to", "fro">>
    /\ u0 = <<Int2F(0), Int2F(1), Int2F(0)>> /\ FVal = u0

\* C5: a vector sent to the OSS with `vtov` and brought back with `vfrov`
\* through the same segment is the vector one started from (both flavors).
C5_VectorRoundTrip ==
    BuiltOk =>
        /\ fhist = <<"vtov", "vfrov">> => FVal = u0
        /\ mhist = <<"vtov", "vfrov">> => buf = u0
\* a round trip of a non-null vector through a rotated M1 segment
C5_Witness ==
    /\ BuiltOk /\ mirror = "M1" /\ id = 5 /\ fhist = <<"vtov", "vfrov">>
    /\ u0 = <<Int2F(1), Int2F(0), Int2F(0)>> /\ FVal = u0

\* C6: on the M1 center segment rotation() is absent, `to` adds exactly
\* (0, 0, 3.9) and `fro` subtracts it; the null point goes to (0, 0, 3.9).
C6_M1Center ==
    (BuiltOk /\ mirror = "M1" /\ id = 7) =>
        /\ Rot = None
        /\ fhist = <<"to">> =>
              FVal = <<u0[1], u0[2], <<10 * u0[3][1] + 39, 0, 10>> >>
        /\ fhist = <<"fro">> =>
              FVal = <<u0[1], u0[2], <<10 * u0[3][1] - 39, 0, 10>> >>
        /\ mhist = <<"to">> =>
              buf = <<u0[1], u0[2], <<10 * u0[3][1] + 39, 0, 10>> >>
        /\ mhist = <<"fro">> =>
              buf = <<u0[1], u0[2], <<10 * u0[3][1] - 39, 0, 10>> >>
\* the null point has been sent to the OSS through the M1 center segment
C6_Witness ==
    /\ BuiltOk /\ mirror = "M1" /\ id = 7 /\ fhist = <<"to">>
    /\ u0 = Vector_null /\ FVal = <<Zero, Zero, <<39, 0, 10>> >>

\* the image of u under the half turn about the x axis
FlipX(u) == <<u[1], FNeg(u[2]), FNeg(u[3])>>
\* C7 as stated: the M2 center segment has no rotation, so `to`/`fro` are
\* translations by (0, 0, height) and `vtov`/`vfrov` the identity; rotation()
\* is present exactly for the ids 1..6, on both mirrors.
C7_Original ==
    BuiltOk =>
        /\ Rot # None <=> id \in 1..6
        /\ (mirror = "M2" /\ id = 7) =>
              /\ fhist = <<"to">> =>
                    FVal = <<u0[1], u0[2], FAdd(u0[3], TheSeg.height)>>
              /\ fhist = <<"fro">> =>
                    FVal = <<u0[1], u0[2], FSub(u0[3], TheSeg.height)>>
              /\ fhist = <<"vtov">> => FVal = u0
              /\ fhist = <<"vfrov">> => FVal = u0
\* C7 amended: rotation() is present for the ids 1..6 and absent for the M1
\* center in both revisions.  For the M2 center it is absent in src/lib.rs
\* (pure translation, vectors unchanged), while src/segment.rs returns
\* unit(180°, k) * unit(pi, j) = (0, (-1, 0, 0)), the half turn about x:
\* there vtov/vfrov map (x, y, z) to (x, -y, -z), and to/fro compose that
\* half turn with the translation by (0, 0, height).
C7_M2Center ==
    BuiltOk =>
        /\ id \in 1..6 => Rot # None
        /\ (mirror = "M1" /\ id = 7) => Rot = None
        /\ (mirror = "M2" /\ id = 7 /\ rev = "lib") =>
              /\ Rot = None
              /\ fhist = <<"to">> =>
                    FVal = <<u0[1], u0[2], FAdd(u0[3], TheSeg.height)>>
              /\ fhist = <<"fro">> =>
                    FVal = <<u0[1], u0[2], FSub(u0[3], TheSeg.height)>>
              /\ fhist = <<"vtov">> => FVal = u0
              /\ fhist = <<"vfrov">> => FVal = u0
        /\ (mirror = "M2" /\ id = 7 /\ rev = "v2") =>
              /\ Rot = <<[scalar |-> Zero, vector |-> <<Int2F(0 - 1), Zero, Zero>>]>>
              /\ fhist = <<"to">> =>
                    FVal = <<u0[1], FNeg(u0[2]), FSub(TheSeg.height, u0[3])>>
              /\ fhist = <<"fro">> =>
                    FVal = <<u0[1], FNeg(u0[2]), FSub(TheSeg.height, u0[3])>>
              /\ fhist = <<"vtov">> => FVal = FlipX(u0)
              /\ fhist = <<"vfrov">> => FVal = FlipX(u0)
\* a vector along y has gone through the M2 center segment of src/lib.rs
C7_Witness ==
    /\ BuiltOk /\ mirror = "M2" /\ id = 7 /\ rev = "lib" /\ fhist = <<"vtov">>
    /\ u0 = <<Int2F(0), Int2F(1), Int2F(0)>> /\ FVal = u0

\* vector_part(q . pure(u) . q*) and vector_part(q* . pure(u) . q)
Rotate(u, q) ==
    Quaternion_mul(Quaternion_mul(q, [scalar |-> Zero, vector |-> u]),
                   Quaternion_complex_conjugate(q)).vector
RotateBack(u, q) ==
    Quaternion_mul(Quaternion_mul(Quaternion_complex_conjugate(q),
                                  [scalar |-> Zero, vector |-> u]), q).vector
\* C8: with t = translation() and q = rotation(): to(u) is rotate(u, q) + t
\* (u + t without q) and fro(u) is the inverse rotation of u - t (u - t
\* without q).
C8_ToFroFormula ==
    BuiltOk =>
        /\ fhist = <<"to">> =>
              FVal = IF Rot # None THEN Vector_add(Rotate(u0, Rot[1]), T)
                     ELSE Vector_add(u0, T)
        /\ fhist = <<"fro">> =>
              FVal = IF Rot # None THEN RotateBack(Vector_sub(u0, T), Rot[1])
                     ELSE Vector_sub(u0, T)
\* `to` has run on a non-null point with a rotated, off-axis M1 segment
C8_Witness ==
    /\ BuiltOk /\ mirror = "M1" /\ id = 3 /\ fhist = <<"to">>
    /\ u0 = <<Int2F(0), Int2F(0), Int2F(1)>> /\ Rot # None

\* C9: the vector transforms are the point transforms without the
\* translation t: vtov(u) = to(u) - t and vfrov(u) = fro(u + t); they keep
\* the null vector, and return u itself for a segment without rotation.
C9_VectorsOmitTranslation ==
    BuiltOk =>
        /\ fhist = <<"vtov">> =>
              /\ FVal = Vector_sub(FunOf("to", u0), T)
              /\ u0 = Vector_null => FVal = Vector_null
              /\ Rot = None => FVal = u0
        /\ fhist = <<"vfrov">> =>
              /\ FVal = FunOf("fro", Vector_add(u0, T))
              /\ u0 = Vector_null => FVal = Vector_null
              /\ Rot = None => FVal = u0
\* `vtov` has run on a non-null vector with a rotated, off-axis M2 segment
C9_Witness ==
    /\ BuiltOk /\ mirror = "M2" /\ id = 4 /\ fhist = <<"vtov">>
    /\ u0 = <<Int2F(0), Int2F(0 - 1), Int2F(0)>> /\ Rot # None /\ FVal # u0

\* C10: after a mutating transform has run on a triple holding u with an Ok
\* segment, the triple holds what the functional transform of the same name
\* returns for u.
C10_MutEqualsFunctional ==
    (BuiltOk /\ mhist # <<>>) => buf = FunOf(mhist[Len(mhist)], bufPrev)
\* the mutating `fro` has changed the triple
C10_Witness ==
    /\ BuiltOk /\ mirror = "M1" /\ id = 3 /\ mhist = <<"fro">> /\ buf # bufPrev

\* the integer n an operand <<n, 0, 1>> stands for
IntOf(x) == x[1]
\* the Hamilton product of integer quaternions, component by component
Hamilton(s1, a, s2, b) ==
    [scalar |-> Int2F(s1 * s2 - (a[1] * b[1] + a[2] * b[2] + a[3] * b[3])),
     vector |-> <<Int2F(s1 * b[1] + s2 * a[1] + (a[2] * b[3] - a[3] * b[2])),
                  Int2F(s1 * b[2] + s2 * a[2] + (a[3] * b[1] - a[1] * b[3])),
                  Int2F(s1 * b[3] + s2 * a[3] + (a[1] * b[2] - a[2] * b[1]))>>]
IntVec(v) == <<IntOf(v[1]), IntOf(v[2]), IntOf(v[3])>>
MulOps == {"mul", "mul_ref_into", "mul_ref_ref", "mul_own_ref"}
\* C13: p * q is the Hamilton product (s1 s2 - v1.v2, s1 v2 + s2 v1 + v1 x v2)
\* in each of the four overloaded operand forms; (3,(1,-2,1)) * (2,(-1,2,3))
\* is (8,(-9,-2,11)), and differs from the product in the other order.
C13_HamiltonProduct ==
    callOp \in MulOps =>
        /\ callRet = Hamilton(IntOf(callArgs[1].scalar), IntVec(callArgs[1].vector),
                              IntOf(callArgs[2].scalar), IntVec(callArgs[2].vector))
        /\ callArgs = <<TestP, TestQ>> =>
              /\ callRet = [scalar |-> Int2F(8),
                            vector |-> <<Int2F(0 - 9), Int2F(0 - 2), Int2F(11)>>]
              /\ callRet # Hamilton(2, <<0 - 1, 2, 3>>, 3, <<1, 0 - 2, 1>>)
\* the product of the test of quaternion.rs, taken as &p * &q
C13_Witness ==
    /\ callOp = "mul_ref_ref" /\ callArgs = <<TestP, TestQ>>
    /\ callRet.scalar = Int2F(8)

\* dot and cross of integer vectors, component by component
DotInt(a, b) == a[1] * b[1] + a[2] * b[2] + a[3] * b[3]
CrossInt(a, b) ==
    <<Int2F(a[2] * b[3] - a[3] * b[2]), Int2F(a[3] * b[1] - a[1] * b[3]),
      Int2F(a[1] * b[2] - a[2] * b[1])>>
\* C14: dot(a,b) = a1 b1 + a2 b2 + a3 b3; cross(a,b) = (a2 b3 - a3 b2,
\* a3 b1 - a1 b3, a1 b2 - a2 b1) = -cross(b,a), orthogonal to a;
\* norm_squared(a) = dot(a,a); s * a scales each component; the values of
\* the tests of vector.rs: -2, (-8,-4,0), (3,-6,3).
C14_DotCrossScale ==
    /\ callOp = "dot" =>
          /\ callRet = Int2F(DotInt(IntVec(callArgs[1]), IntVec(callArgs[2])))
          /\ callArgs = <<TestP.vector, TestQ.vector>> => callRet = Int2F(0 - 2)
    /\ callOp = "cross" =>
          /\ callRet = CrossInt(IntVec(callArgs[1]), IntVec(callArgs[2]))
          /\ callRet = Vector_neg(Vector_cross(callArgs[2], callArgs[1]))
          /\ Vector_dot(callArgs[1], callRet) = Zero
          /\ callArgs = <<TestP.vector, TestQ.vector>> =>
                callRet = <<Int2F(0 - 8), Int2F(0 - 4), Int2F(0)>>
    /\ callOp = "norm_squared" =>
          /\ callRet = Int2F(DotInt(IntVec(callArgs[1]), IntVec(callArgs[1])))
          /\ callRet = Vector_dot(callArgs[1], callArgs[1])
    /\ callOp \in {"scale", "scale_own", "mul_f64"} =>
          /\ callRet = <<Int2F(IntOf(callArgs[1]) * IntOf(callArgs[2][1])),
                         Int2F(IntOf(callArgs[1]) * IntOf(callArgs[2][2])),
                         Int2F(IntOf(callArgs[1]) * IntOf(callArgs[2][3]))>>
          /\ callArgs = <<Int2F(3), TestP.vector>> =>
                callRet = <<Int2F(3), Int2F(0 - 6), Int2F(3)>>
\* the cross product of the test of vector.rs
C14_Witness ==
    /\ callOp = "cross" /\ callArgs = <<TestP.vector, TestQ.vector>>
    /\ callRet = <<Int2F(0 - 8), Int2F(0 - 4), Int2F(0)>>

\* C15: Vector::from of a slice of length 2 is (v0, v1, 0), of length 3 is
\* (v0, v1, v2), and of length 0 or 1 panics (no vector comes out).
C15_FromSlice ==
    callOp = "from_slice" =>
        /\ Len(callArgs[1]) = 2 => callRet = <<callArgs[1][1], callArgs[1][2], Zero>>
        /\ Len(callArgs[1]) = 3 =>
              callRet = <<callArgs[1][1], callArgs[1][2], callArgs[1][3]>>
        /\ Len(callArgs[1]) \in {0, 1} => callRet = Panic
\* a one-element slice has made the conversion panic
C15_Witness ==
    callOp = "from_slice" /\ callArgs = << <<One>> >> /\ callRet = Panic

\* (cos, sin) of 90 + c degrees for the clocking c of the M1 segments 1..6
\* (30 degrees for segment 2, then 60 degrees less for each next one)
DirM1 ==
    << <<Zero, One>>, << <<0, 1, 2>>, Half>>, << <<0, 1, 2>>, FNeg(Half)>>,
       <<Zero, FNeg(One)>>, << <<0, 0 - 1, 2>>, FNeg(Half)>>,
       << <<0, 0 - 1, 2>>, Half>> >>
\* the origin of segment j of the mirror of the constructed segment
OriginOf(j) == Segment_translation(Segment_new(mirror, j).val)
\* C16: translation() is (0, 0, height) for the center segment and, for
\* id in 1..6, (d cos(90 + c), d sin(90 + c), height + conic.height(d)) on
\* both mirrors (M2 is M1 turned by 180 degrees), the sag being added to z;
\* the six outer origins share z and lie at the distance d from the axis.
C16_Translation ==
    BuiltOk =>
        /\ id = 7 => T = <<Zero, Zero, TheSeg.height>>
        /\ id \in 1..6 =>
              /\ T[1] = FMul(TheSeg.distance[1],
                             IF mirror = "M1" THEN DirM1[id][1] ELSE FNeg(DirM1[id][1]))
              /\ T[2] = FMul(TheSeg.distance[1],
                             IF mirror = "M1" THEN DirM1[id][2] ELSE FNeg(DirM1[id][2]))
              /\ T[3] = FAdd(TheSeg.height,
                             Conic_height(TheSeg.conic, TheSeg.distance[1]))
              /\ T[3] # TheSeg.height
              /\ FAdd(FMul(T[1], T[1]), FMul(T[2], T[2]))
                    = FMul(TheSeg.distance[1], TheSeg.distance[1])
              /\ \A j \in 1..6 : OriginOf(j)[3] = T[3]
\* segment 2 of M2: the in-plane angle is 90 + 120 = 210 degrees
C16_Witness ==
    /\ BuiltOk /\ mirror = "M2" /\ id = 2
    /\ T[1] = FMul(TheSeg.distance[1], <<0, 0 - 1, 2>>)
    /\ T[2] = FMul(TheSeg.distance[1], FNeg(Half))

\* theta (degrees) is at most a quarter turn either way
SmallTheta(theta) ==
    /\ FSgn(FSub(Int2F(90), theta)) >= 0
    /\ FSgn(FAdd(Int2F(90), theta)) >= 0
\* C17: for theta of at most a quarter turn, euler_angles of unit(theta, i)
\* is (theta, 0, 0), of unit(theta, j) is (0, theta, 0) and of unit(theta, k)
\* is (0, 0, theta), in radians (roll, pitch, yaw).
C17_EulerSingleAxis ==
    (callOp = "euler" /\ SmallTheta(callArgs[1])) =>
        callRet = [a \in 1..3 |->
                      IF a = callArgs[2] THEN to_radians(callArgs[1]) ELSE Zero]
\* the pitch of a rotation by -60 degrees about j
C17_Witness ==
    /\ callOp = "euler" /\ callArgs = <<Int2F(0 - 60), 2>>
    /\ callRet = <<Zero, Rat(0 - 1, 3), Zero>>

\* C18: the mutating `to` with the result of Segment::<M1>::new(sid)
\* returns Ok for every sid of 1..=8, the range tests::transform_mut_m1_to
\* unwraps it on.
C18_MutToOkUpTo8 ==
    (rev = "lib" /\ mirror = "M1" /\ id \in 1..8 /\ mhist = <<"to">>) =>
        mret[1].ok

\* C19: in the API of src/lib.rs, a transform given Err(SegmentId(i)) returns
\* Err(SegmentId(i)) and transforms nothing: the functional flavor returns no
\* coordinates and the mutating flavor leaves the caller's triple as it was;
\* given an Ok segment, every transform returns Ok.
C19_ErrorPropagation ==
    (rev = "lib" /\ Built) =>
        /\ (~seg[1].ok /\ fhist # <<>>) =>
              /\ seg[1].err = SegmentId(id)
              /\ val = Err(SegmentId(id))
              /\ DOMAIN val = {"ok", "err"}
        /\ (~seg[1].ok /\ mhist # <<>>) =>
              /\ mret = Some(Err(SegmentId(id)))
              /\ buf = bufPrev
              /\ buf = u0
        /\ (seg[1].ok /\ fhist # <<>>) => val.ok
        /\ (seg[1].ok /\ mhist # <<>>) => mret[1].ok
\* the mutating vtov on the result of new(8) has returned the error and the
\* triple, which is not the null vector, is as before
C19_Witness ==
    /\ rev = "lib" /\ Built /\ id = 8 /\ ~seg[1].ok
    /\ mhist = <<"vtov">> /\ mret = Some(Err(SegmentId(8)))
    /\ buf = bufPrev /\ buf # Vector_null

\* the function that undoes the deprecated function op
Undo(op, sid, v) ==
    IF op = "m1_any_to_oss" THEN oss_to_any_m1(sid, v) ELSE m1_any_to_oss(sid, v)
\* C20: m1_any_to_oss(sid, p) and oss_to_any_m1(sid, p) return the null
\* vector, without panicking, for every sid outside 1..7 (0 and 8 included);
\* for sid in 1..7 they return p transformed: p itself for the center
\* segment, and for sid in 1..6 a point other than p that the opposite
\* function takes back to p.
C20_DeprecatedNoError ==
    callOp \in {"m1_any_to_oss", "oss_to_any_m1"} =>
        /\ callRet # Panic
        /\ callArgs[1] \notin 1..7 => callRet = <<Zero, Zero, Zero>>
        /\ callArgs[1] = 7 => callRet = callArgs[2]
        /\ callArgs[1] \in 1..6 =>
              /\ callRet # callArgs[2]
              /\ Undo(callOp, callArgs[1], callRet) = callArgs[2]
\* m1_any_to_oss(8, p) has returned the null vector for a p that is not null
C20_Witness ==
    /\ callOp = "m1_any_to_oss" /\ callArgs[1] = 8
    /\ callArgs[2] # <<Zero, Zero, Zero>> /\ callRet = <<Zero, Zero, Zero>>

\* the payload types the claim names
ClaimedShapes == {"[f64; 3]", "Vec<f64>"}
\* C11 as stated: in both revisions the functional and the mutating flavor
\* can each be called on a [f64; 3] and on a Vec<f64>.
C11_Original ==
    callOp = "none" =>
        \A shape \in ClaimedShapes :
            /\ ENABLED TransformOn(shape) /\ ENABLED TransformMutOn(shape)
            /\ ENABLED TransformOn_v2(shape) /\ ENABLED TransformMutOn_v2(shape)
\* C11 (amended): the functional flavor can be called on a [f64; 3] and on a
\* Vec<f64> (in src/transform.rs on a Vector as well); the mutating flavor
\* can be called on a [f64; 3] only, and no mutating call ever has a Vec<f64>
\* or a Vector for payload.
C11_PayloadShapes ==
    /\ callOp = "none" =>
          \A shape \in Shapes :
              /\ ENABLED TransformOn(shape) <=> shape \in ClaimedShapes
              /\ ENABLED TransformOn_v2(shape)
              /\ ENABLED TransformMutOn(shape) <=> shape = "[f64; 3]"
              /\ ENABLED TransformMutOn_v2(shape) <=> shape = "[f64; 3]"
    /\ callOp \in {"TransformMut", "TransformMut_v2"} => callArgs[1] = "[f64; 3]"
    /\ callOp = "Transform" => callArgs[1] \in ClaimedShapes
\* the functional `to` of src/lib.rs has moved a Vec<f64> through an M1 segment
C11_Witness ==
    /\ callOp = "Transform" /\ callArgs[1] = "Vec<f64>" /\ callArgs[2] = "to"
    /\ callArgs[3] = "M1" /\ callArgs[4] = 2
    /\ callRet.ok /\ callRet.val # callArgs[5]

\* the block of segment k in the output of the call: six consecutive numbers
BlockOf(k) == SubSeq(callRet, 6 * (k - 1) + 1, 6 * k)
\* C12: the tip-tilt map outputs 42 numbers, seven blocks of six in the
\* order of the segment ids 1..7, each block being the three translations of
\* its segment followed by its three Euler angles; the block of the center
\* segment has a null translation and the Euler angles of q_tt itself.
C12_RbmLayout ==
    callOp = "tip_tilt_to_rbm" =>
        /\ Len(callRet) = 42
        /\ \A k \in 1..7 :
              /\ BlockOf(k) = SegmentRbm(Segment_new(callArgs[1], k),
                                         Segment_new(callArgs[1], 7),
                                         TipTiltQuaternion(callArgs[2]))
              /\ SubSeq(BlockOf(k), 4, 6) =
                    Quaternion_euler_angles(
                        LocalTipTilt(Segment_rotation(Segment_new(callArgs[1], k).val),
                                     TipTiltQuaternion(callArgs[2])))
        /\ SubSeq(BlockOf(7), 1, 3) = <<Zero, Zero, Zero>>
        /\ SubSeq(BlockOf(7), 4, 6) =
              Quaternion_euler_angles(TipTiltQuaternion(callArgs[2]))
\* a tip of 60 degrees of M1: the center block ends the output with a null
\* translation and the roll of 60 degrees, and the first two blocks differ
C12_Witness ==
    /\ callOp = "tip_tilt_to_rbm"
    /\ callArgs = <<"M1", <<Rat(1, 3), Zero>>>>
    /\ Len(callRet) = 42
    /\ SubSeq(callRet, 37, 40) = <<Zero, Zero, Zero, Rat(1, 3)>>
    /\ BlockOf(1) # BlockOf(2)

\* the pairs (source, target) of Frame::to between the OSS and M1S7
CenterPairs == {<<"OSS", "M1S7">>, <<"M1S7", "OSS">>, <<"OSS", "OSS">>}
\* the mirror height of M1 as a vector along z
HeightM1 == <<Zero, Zero, Lit(39, 10)>>
\* C21: in the Frame API the M1S7 frame is the OSS: OSS -> M1S7, M1S7 -> OSS
\* and OSS -> OSS copy p, so oss_to_any_m1(7, p) = m1_any_to_oss(7, p) = p,
\* whereas `to` / `fro` with Segment::<M1>::new(7) add / subtract
\* (0, 0, 3.9).
C21_CenterFrameIsOss ==
    /\ (callOp = "Frame::to" /\ <<callArgs[1], callArgs[2]>> \in CenterPairs) =>
          callRet = callArgs[3]
    /\ (callOp \in {"m1_any_to_oss", "oss_to_any_m1"} /\ callArgs[1] = 7) =>
          callRet = callArgs[2]
    /\ (callOp = "Transform" /\ callArgs[3] = "M1" /\ callArgs[4] = 7) =>
          /\ callArgs[2] = "to" => callRet.val = Vector_add(callArgs[5], HeightM1)
          /\ callArgs[2] = "fro" => callRet.val = Vector_sub(callArgs[5], HeightM1)
          /\ callArgs[2] \in {"to", "fro"} => callRet.val # callArgs[5]
\* OSS -> M1S7 has copied a point that is not the null vector
C21_Witness ==
    /\ callOp = "Frame::to" /\ callArgs[1] = "OSS" /\ callArgs[2] = "M1S7"
    /\ callArgs[3] # <<Zero, Zero, Zero>> /\ callRet = callArgs[3]

====
